---- MODULE Spec2Model ----
(***************************************************************************)
(* Model of libs/net/traffic_generator.py: the iperf3 Server and Client    *)
(* endpoints, the Connection context manager that starts, verifies and     *)
(* stops them over the VM console, and the `with connection(...)` scope of *)
(* the tcp_connection fixture that uses it.                                *)
(*                                                                         *)
(* Every remote command (one vm.console call) is one step, so that a       *)
(* generator process on a VM can exit on its own between two commands.     *)
(***************************************************************************)
EXTENDS Integers, Sequences, FiniteSets, TLC

VARIABLES
    procs,        \* [target -> set of command lines of the processes running there]
    args,         \* the arguments connection(...) was called with
    conn,         \* the Connection: its Server and Client (vm, cmd)
    pc,           \* position of the caller: [at, k]
    frame,        \* the handler the commands are issued from: none/enter/body/exit
    rel,          \* number of __exit__ calls begun so far
    calls,        \* number of is_active() calls begun by the body
    log,          \* the commands issued and the values returned, in order
    enterResult,  \* how __enter__ ended
    bodyResult,   \* how the body of the with statement ended
    exitResults,  \* how each __exit__ call ended, in order
    withReleases, \* number of __exit__ calls made by the with statement
    callerSees    \* what the with statement delivers to its caller

vars == <<procs, args, conn, pc, frame, rel, calls, log, enterResult, bodyResult,
          exitResults, withReleases, callerSees>>

\* ---------------------------------------------------------------- bounds
MaxActiveCalls == 1
MaxReleases == 2
\* Number of commands of one run on which the executor itself fails.
MaxFaults == 1

\* ------------------------------------------------------------- constants
DEFAULT_CMD_TIMEOUT_SEC == 10
IPERF_BIN == "iperf3"

Targets == {"vmA", "vmB"}
\* The two VMs are interchangeable: the server is placed on one of them and
\* the client on either, the same VM included.
ServerTargets == {"vmB"}
\* Addresses are spelled out character by character: they are the part of a
\* command string in which a character means something to pgrep.
Ip1 == <<"1", "0", ".", "1", "0", ".", "0", ".", "5">>
Ip2 == <<"1", "0", ".", "1", "0", ".", "0", ".", "6">>
Ips == {Ip1, Ip2}
Ports == {"5201", "5203"}
\* The (server_ip, server_port) pairs connection(...) is called with.
Addressing == {<<Ip1, "5201">>, <<Ip2, "5203">>}

\* ------------------------------------------------------- command strings
ServerCmd(port) == <<IPERF_BIN, "--server", "--daemon", "--port", port, "--one-off">>

ClientCmd(ip, port) ==
    <<IPERF_BIN, "--client">> \o ip \o <<"--time", "0", "--port", port>>

\* Server.__init__ / Client.__init__
NewServer(vm, port) == [vm |-> vm, cmd |-> ServerCmd(port)]

NewClient(vm, ip, port) == [vm |-> vm, cmd |-> ClientCmd(ip, port)]

\* Variant: the client is built with iperf3's default port, not server_port.
MakeConnection_DefaultPort(a) ==
    [server |-> NewServer(a.server_vm, a.server_port),
     client |-> NewClient(a.client_vm, a.server_ip, "5201")]

\* connection(...): the Server and the Client it builds from its arguments.
MakeConnection(a) ==
    [server |-> NewServer(a.server_vm, a.server_port),
     client |-> NewClient(a.client_vm, a.server_ip, a.server_port)]

\* The line each start() sends: the server's command as it is, the client's
\* command followed by "&".
StartLine(ep, cmd) == IF ep = "client" THEN cmd \o <<"&">> ELSE cmd

\* The process a shell line leaves behind: a trailing "&" is shell syntax and
\* is not part of the command line of the job.
Launched(line) ==
    IF line[Len(line)] = "&" THEN SubSeq(line, 1, Len(line) - 1) ELSE line

\* Exit status of a start line: a background job always reports 0.
StartRc(line, launched) ==
    IF line[Len(line)] = "&" THEN 0 ELSE IF launched THEN 0 ELSE 1

\* An iperf3 instance of another command line that may already run on a VM.
OtherIperf == <<IPERF_BIN, "--server", "--daemon", "--port", "5202", "--one-off">>

\* An iperf3 client of another server, 10.1010.5 (the address 10.3.242.5 in
\* three-part notation), that may already run on a VM.
LookAlike ==
    ClientCmd(<<"1", "0", ".", "1", "0", "1", "0", ".", "5">>, "5201")

\* A process of another binary, on every VM.
Sshd == <<"sshd">>

\* ------------------------------------------------------- remote executor
\* vm.console(commands, timeout): succeeds, or fails with CommandExecFailed on
\* a non-zero exit status or a timeout, or fails in some other way.
Faults == {"none", "timeout", "other"}

\* The faults the executor may still produce in this run.
FaultsLeft ==
    IF Cardinality({i \in 1..Len(log) : log[i].fault # "none"}) < MaxFaults
    THEN Faults
    ELSE {"none"}

ConsoleExc(fault, rc) ==
    IF fault = "other" THEN "OtherError"
    ELSE IF fault = "timeout" \/ rc # 0 THEN "CommandExecFailed"
    ELSE "none"

\* pgrep -ofAx '<cmd>': the command string is the pattern, an extended regular
\* expression that has to match a whole command line (-f, -x). Of the
\* characters in these command strings only "." is special: it matches any
\* one character. Everything else matches itself.
PgrepMatches(pat, line) ==
    /\ Len(pat) = Len(line)
    /\ \A i \in 1..Len(pat) : pat[i] = "." \/ pat[i] = line[i]

\* Its exit status: 0 iff some process matches.
PgrepRc(ps, cmd) == IF \E p \in ps : PgrepMatches(cmd, p) THEN 0 ELSE 1

\* pkill iperf3: the processes it signals, and its status.
\* Variant: only one of the matching processes is signalled (as `pkill -o`).
PkillMatches_OneOnly(ps) ==
    LET ms == {p \in ps : p[1] = IPERF_BIN}
    IN IF ms = {} THEN {} ELSE {CHOOSE p \in ms : TRUE}

PkillMatches(ps) == {p \in ps : p[1] = IPERF_BIN}

\* Variant: the status of pkill is ignored (as in `pkill iperf3 || true`).
PkillRc_Ignored(ps) == 0

PkillRc(ps) == IF PkillMatches(ps) # {} THEN 0 ELSE 1

\* Variant: the two return values are swapped.
IsProcessRunning_Negated(exc) ==
    IF exc = "none" THEN "false"
    ELSE IF exc = "CommandExecFailed" THEN "true"
    ELSE "raised"

\* Variant: the failure of the lookup is swallowed and True is returned.
IsProcessRunning_AlwaysTrue(exc) ==
    IF exc \in {"none", "CommandExecFailed"} THEN "true" ELSE "raised"

\* _is_process_running: True when console returned, False on CommandExecFailed;
\* any other exception is not caught.
IsProcessRunning(exc) ==
    IF exc = "none" THEN "true"
    ELSE IF exc = "CommandExecFailed" THEN "false"
    ELSE "raised"

\* ------------------------------------------------------------ Connection
\* Variant: the client is started first.
EnterOrder_ClientFirst == <<"client", "server">>

EnterOrder == <<"server", "client">>

\* Variant: the server is looked up once more after the client.
IsActiveOrder_Recheck == <<"server", "client", "server">>

IsActiveOrder == <<"server", "client">>

\* Variant: the server is released first.
ExitOrder_ServerFirst == <<"server", "client">>

ExitOrder == <<"client", "server">>

Endpoint(ep) == IF ep = "server" THEN conn.server ELSE conn.client

\* Variant: a failed start() is swallowed and __enter__ goes on.
StartProceeds_Always(exc) == TRUE

\* __enter__: an exception of a start() leaves __enter__ at once.
StartProceeds(exc) == exc = "none"

\* Variant: the result of is_active() is not looked at.
EnterOutcome_NoVerify(active) ==
    IF active = "raised" THEN "OtherError" ELSE "returned"

\* __enter__: `if not self.is_active(): raise ConnectionSetupError`.
EnterOutcome(active) ==
    IF active = "true" THEN "returned"
    ELSE IF active = "false" THEN "ConnectionSetupError"
    ELSE "OtherError"

\* Variant: stop() is called whatever is_running() returned.
ExitGuard_Always(running) == running # "raised"

\* __exit__: `if self._x.is_running(): self._x.stop()`.
ExitGuard(running) == running = "true"

\* Variant: __exit__ returns True.
ExitSuppresses_True == TRUE

\* __exit__ returns None: it never asks the with statement to suppress.
ExitSuppresses == FALSE

\* The with statement: what its caller gets, given how the body and __exit__
\* ended.
WithOutcome(body, exit) ==
    IF exit # "returned" THEN exit
    ELSE IF body = "normal" THEN "normal"
    ELSE IF ExitSuppresses THEN "normal"
    ELSE body

\* One issued command: where it was issued from, the executor's fault and
\* exception, what the method returned, and what was true on the target:
\*   found - lookup: pgrep matched; start: the process was launched;
\*           stop: pkill ran
\*   hit   - lookup: a process with exactly the endpoint's command line was
\*           there; start: the process was launched; stop: pkill matched
Ev(op, ep, fault, exc, ret, found, hit) ==
    [ph |-> frame, n |-> rel, call |-> calls, op |-> op, ep |-> ep,
     fault |-> fault, exc |-> exc, ret |-> ret, found |-> found, hit |-> hit]

NoArgs == [server_vm |-> "none", client_vm |-> "none",
           server_ip |-> <<>>, server_port |-> "none"]

NoConn == [server |-> [vm |-> "none", cmd |-> <<>>],
           client |-> [vm |-> "none", cmd |-> <<>>]]

At(a, i) == [at |-> a, k |-> i]

\* Variant: a failed __enter__ releases what it started before it raises.
EnterFailurePc_Rollback == At("exit_check", 1)

\* __enter__ that raises is left at once: nothing is undone, and the with
\* statement does not call __exit__.
EnterFailurePc == At("left", 0)

Init ==
    /\ \E ps \in {{}, {OtherIperf, LookAlike}} :
          procs = [t \in Targets |-> ps \cup {Sshd}]
    /\ args = NoArgs
    /\ conn = NoConn
    /\ pc = At("new", 0)
    /\ frame = "none"
    /\ rel = 0
    /\ calls = 0
    /\ log = <<>>
    /\ enterResult = "pending"
    /\ bodyResult = "pending"
    /\ exitResults = <<>>
    /\ withReleases = 0
    /\ callerSees = "pending"

\* connection(...): builds the Server, the Client and the Connection.
Factory ==
    /\ pc.at = "new"
    /\ \E sv \in ServerTargets, cv \in Targets, a \in Addressing :
          /\ args' = [server_vm |-> sv, client_vm |-> cv,
                      server_ip |-> a[1], server_port |-> a[2]]
          /\ conn' = MakeConnection(args')
    /\ pc' = At("constructed", 0)
    /\ UNCHANGED <<procs, frame, rel, calls, log, enterResult, bodyResult,
                   exitResults, withReleases, callerSees>>

\* The with statement calls __enter__.
WithEnter ==
    /\ pc.at = "constructed"
    /\ pc' = At("enter_start", 1)
    /\ frame' = "enter"
    /\ UNCHANGED <<procs, args, conn, rel, calls, log, enterResult, bodyResult,
                   exitResults, withReleases, callerSees>>

\* __enter__: self._server.start(), then self._client.start().
EnterStart ==
    /\ pc.at = "enter_start"
    /\ LET ep   == EnterOrder[pc.k]
           e    == Endpoint(ep)
           line == StartLine(ep, e.cmd)
       IN \E fault \in FaultsLeft, launched \in BOOLEAN :
            /\ (fault = "none" /\ StartRc(line, launched) = 0) => launched
            /\ LET exc == ConsoleExc(fault, StartRc(line, launched))
               IN /\ procs' = IF launched
                              THEN [procs EXCEPT ![e.vm] = @ \cup {Launched(line)}]
                              ELSE procs
                  /\ log' = Append(log, Ev("start", ep, fault, exc, exc, launched, launched))
                  /\ IF StartProceeds(exc)
                     THEN /\ pc' = IF pc.k < Len(EnterOrder)
                                   THEN At("enter_start", pc.k + 1)
                                   ELSE At("active_lookup", 1)
                          /\ UNCHANGED <<enterResult, callerSees, frame>>
                     ELSE /\ pc' = EnterFailurePc
                          /\ enterResult' = exc
                          /\ callerSees' = exc
                          /\ frame' = "none"
    /\ UNCHANGED <<args, conn, rel, calls, bodyResult, exitResults, withReleases>>

\* is_active: `self._server.is_running() and self._client.is_running()`; the
\* second operand is evaluated only when the first is true.
IsActiveContinues(running) == running = "true"

\* Both endpoints have a process pgrep would match / a process of their own
\* command line, now.
BothMatch ==
    \A ep \in {"server", "client"} :
        PgrepRc(procs[Endpoint(ep).vm], Endpoint(ep).cmd) = 0

BothAlive ==
    \A ep \in {"server", "client"} : Endpoint(ep).cmd \in procs[Endpoint(ep).vm]

\* One is_running() of is_active(), called by __enter__ or by the body.
ActiveLookup ==
    /\ pc.at = "active_lookup"
    /\ LET ep == IsActiveOrder[pc.k]
           e  == Endpoint(ep)
           rc == PgrepRc(procs[e.vm], e.cmd)
       IN \E fault \in FaultsLeft :
            LET exc  == ConsoleExc(fault, rc)
                r    == IsProcessRunning(exc)
                lk   == Ev("lookup", ep, fault, exc, r, rc = 0,
                           e.cmd \in procs[e.vm])
                more == IsActiveContinues(r) /\ pc.k < Len(IsActiveOrder)
                done == Ev("is_active", "both", "none", "none", r,
                           BothMatch, BothAlive)
            IN IF more
               THEN /\ log' = Append(log, lk)
                    /\ pc' = At("active_lookup", pc.k + 1)
                    /\ UNCHANGED <<frame, rel, enterResult, bodyResult,
                                   withReleases, callerSees>>
               ELSE /\ log' = log \o <<lk, done>>
                    /\ IF frame = "enter"
                       THEN /\ enterResult' = EnterOutcome(r)
                            /\ IF EnterOutcome(r) = "returned"
                               THEN /\ pc' = At("body", 0)
                                    /\ frame' = "body"
                                    /\ UNCHANGED callerSees
                               ELSE /\ pc' = EnterFailurePc
                                    /\ frame' = "none"
                                    /\ callerSees' = EnterOutcome(r)
                            /\ UNCHANGED <<rel, bodyResult, withReleases>>
                       ELSE /\ UNCHANGED <<enterResult, callerSees>>
                            /\ IF r = "raised"
                               THEN /\ bodyResult' = "OtherError"
                                    /\ pc' = At("exit_check", 1)
                                    /\ frame' = "exit"
                                    /\ rel' = rel + 1
                                    /\ withReleases' = withReleases + 1
                               ELSE /\ pc' = At("body", 0)
                                    /\ UNCHANGED <<frame, rel, bodyResult,
                                                   withReleases>>
    /\ UNCHANGED <<procs, args, conn, calls, exitResults>>

\* The body of the with statement calls is_active().
BodyIsActive ==
    /\ pc.at = "body"
    /\ calls < MaxActiveCalls
    /\ calls' = calls + 1
    /\ pc' = At("active_lookup", 1)
    /\ UNCHANGED <<procs, args, conn, frame, rel, log, enterResult, bodyResult,
                   exitResults, withReleases, callerSees>>

\* The body ends, normally or by raising; the with statement calls __exit__.
BodyEnds ==
    /\ pc.at = "body"
    /\ \E r \in {"normal", "BodyError"} : bodyResult' = r
    /\ pc' = At("exit_check", 1)
    /\ frame' = "exit"
    /\ rel' = rel + 1
    /\ withReleases' = withReleases + 1
    /\ UNCHANGED <<procs, args, conn, calls, log, enterResult, exitResults,
                   callerSees>>

\* Where __exit__ goes after the endpoint at position k is dealt with.
ExitNext(k) ==
    IF k < Len(ExitOrder) THEN At("exit_check", k + 1) ELSE At("exit_done", 0)

\* __exit__: self._x.is_running().
ExitCheck ==
    /\ pc.at = "exit_check"
    /\ LET ep == ExitOrder[pc.k]
           e  == Endpoint(ep)
           rc == PgrepRc(procs[e.vm], e.cmd)
       IN \E fault \in FaultsLeft :
            LET exc == ConsoleExc(fault, rc)
                r   == IsProcessRunning(exc)
            IN /\ log' = Append(log, Ev("lookup", ep, fault, exc, r, rc = 0,
                                      e.cmd \in procs[e.vm]))
               /\ IF r = "raised"
                  THEN /\ exitResults' = Append(exitResults, "OtherError")
                       /\ pc' = At("exit_done", 0)
                  ELSE /\ pc' = IF ExitGuard(r) THEN At("exit_stop", pc.k)
                                ELSE ExitNext(pc.k)
                       /\ exitResults' =
                             IF pc'.at = "exit_done"
                             THEN Append(exitResults, "returned")
                             ELSE exitResults
    /\ UNCHANGED <<procs, args, conn, frame, rel, calls, enterResult, bodyResult,
                   withReleases, callerSees>>

\* __exit__: self._x.stop().
ExitStop ==
    /\ pc.at = "exit_stop"
    /\ LET ep == ExitOrder[pc.k]
           e  == Endpoint(ep)
           ps == procs[e.vm]
       IN \E fault \in FaultsLeft, ran \in BOOLEAN :
            /\ fault = "none" => ran
            /\ LET exc == ConsoleExc(fault, PkillRc(ps))
               IN /\ procs' = IF ran
                              THEN [procs EXCEPT ![e.vm] = ps \ PkillMatches(ps)]
                              ELSE procs
                  /\ log' = Append(log, Ev("stop", ep, fault, exc, exc, ran,
                                          PkillMatches(ps) # {}))
                  /\ IF exc = "none"
                     THEN /\ pc' = ExitNext(pc.k)
                          /\ exitResults' =
                                IF pc'.at = "exit_done"
                                THEN Append(exitResults, "returned")
                                ELSE exitResults
                     ELSE /\ pc' = At("exit_done", 0)
                          /\ exitResults' = Append(exitResults, exc)
    /\ UNCHANGED <<args, conn, frame, rel, calls, enterResult, bodyResult,
                   withReleases, callerSees>>

\* __exit__ is over. The with statement that called it delivers the outcome to
\* its caller; a direct call just returns.
Leave ==
    /\ pc.at = "exit_done"
    /\ pc' = At("left", 0)
    /\ frame' = "none"
    /\ callerSees' = IF rel = withReleases /\ callerSees = "pending"
                     THEN WithOutcome(bodyResult, exitResults[rel])
                     ELSE callerSees
    /\ UNCHANGED <<procs, args, conn, rel, calls, log, enterResult, bodyResult,
                   exitResults, withReleases>>

\* __exit__ is called again, directly, after an __exit__ that completed.
ReleaseAgain ==
    /\ pc.at = "left"
    /\ enterResult = "returned"
    /\ rel < MaxReleases
    /\ exitResults[rel] = "returned"
    /\ pc' = At("exit_check", 1)
    /\ frame' = "exit"
    /\ rel' = rel + 1
    /\ UNCHANGED <<procs, args, conn, calls, log, enterResult, bodyResult,
                   exitResults, withReleases, callerSees>>

\* A generator process of the Connection exits on its own (the one-off server
\* after its only connection ended, a client that lost its server, a crash).
ProcessExits ==
    /\ pc.at # "new"
    /\ \E ep \in {"server", "client"} :
          /\ Endpoint(ep).cmd \in procs[Endpoint(ep).vm]
          /\ procs' = [procs EXCEPT ![Endpoint(ep).vm] = @ \ {Endpoint(ep).cmd}]
    /\ UNCHANGED <<args, conn, pc, frame, rel, calls, log, enterResult, bodyResult,
                   exitResults, withReleases, callerSees>>

Next ==
    \/ Factory
    \/ WithEnter
    \/ EnterStart
    \/ ActiveLookup
    \/ BodyIsActive
    \/ BodyEnds
    \/ ExitCheck
    \/ ExitStop
    \/ Leave
    \/ ReleaseAgain
    \/ ProcessExits

Spec == Init /\ [][Next]_vars

\* ------------------------------------------------------------ properties
Idx == 1..Len(log)

IsEv(i, ph, op, ep) == log[i].ph = ph /\ log[i].op = op /\ log[i].ep = ep

\* A start of __enter__ that returned without error, before position i.
StartedBefore(i, ep) ==
    \E j \in 1..(i - 1) : IsEv(j, "enter", "start", ep) /\ log[j].exc = "none"

\* C1: in scoped entry the client start is issued only after the server start
\* returned without error, and a liveness lookup is issued only after both
\* starts returned.
C1_EnterOrdering ==
    \A i \in Idx :
        /\ IsEv(i, "enter", "start", "client") => StartedBefore(i, "server")
        /\ (log[i].ph = "enter" /\ log[i].op = "lookup") =>
              \E k \in 1..(i - 1) :
                 /\ IsEv(k, "enter", "start", "client")
                 /\ log[k].exc = "none"
                 /\ StartedBefore(k, "server")

C1_Witness ==
    /\ enterResult = "returned"
    /\ \E i \in Idx : IsEv(i, "enter", "lookup", "client")

\* What the liveness check of __enter__ reported for an endpoint.
Reported(ep, v) == \E i \in Idx : IsEv(i, "enter", "lookup", ep) /\ log[i].ret = v

BothStarted == \E i \in Idx : IsEv(i, "enter", "start", "client")
                               /\ log[i].exc = "none"
                               /\ StartedBefore(i, "server")

\* C2: once both starts returned and entry is over, the Connection was
\* returned iff both endpoints were reported running; an endpoint reported
\* not running means ConnectionSetupError, and then no scope is opened.
C2_EnterVerifies ==
    (BothStarted /\ enterResult # "pending") =>
        /\ (enterResult = "returned") <=>
              (Reported("server", "true") /\ Reported("client", "true"))
        /\ (Reported("server", "false") \/ Reported("client", "false")) =>
              /\ enterResult = "ConnectionSetupError"
              /\ callerSees = "ConnectionSetupError"
        /\ enterResult # "returned" =>
              /\ bodyResult = "pending"
              /\ pc.at = "left"
              /\ rel = 0

C2_Witness ==
    /\ enterResult = "ConnectionSetupError"
    /\ Reported("server", "true")
    /\ Reported("client", "false")

\* C3: within one release every command for the client (its lookup, its
\* stop) precedes every command for the server.
C3_ClientBeforeServer ==
    \A i \in Idx, j \in Idx :
        ( /\ log[i].ph = "exit" /\ log[j].ph = "exit"
          /\ log[i].n = log[j].n
          /\ log[i].ep = "client" /\ log[j].ep = "server" ) => i < j

C3_Witness ==
    \E i \in Idx, j \in Idx :
        /\ IsEv(i, "exit", "stop", "client")
        /\ IsEv(j, "exit", "stop", "server")
        /\ log[i].n = log[j].n

\* C4: in a release a stop is issued to an endpoint only right after its
\* is_running() returned true in that release; an endpoint that reported
\* not running gets no stop in it; an endpoint that reported running gets
\* its stop as the very next command, whatever the other endpoint reported.
C4_StopOnlyIfRunning ==
    \A i \in Idx : log[i].ph = "exit" =>
        /\ log[i].op = "stop" =>
              /\ i > 1
              /\ IsEv(i - 1, "exit", "lookup", log[i].ep)
              /\ log[i - 1].n = log[i].n
              /\ log[i - 1].ret = "true"
        /\ (log[i].op = "lookup" /\ log[i].ret = "false") =>
              ~ \E j \in Idx : /\ IsEv(j, "exit", "stop", log[i].ep)
                               /\ log[j].n = log[i].n
        /\ (log[i].op = "lookup" /\ log[i].ret = "true") =>
              IF i = Len(log)
              THEN pc.at = "exit_stop" /\ ExitOrder[pc.k] = log[i].ep
              ELSE /\ IsEv(i + 1, "exit", "stop", log[i].ep)
                   /\ log[i + 1].n = log[i].n

\* is_active() was false in the scope with only the client alive, and the
\* release stopped the client and left the server alone.
C4_Witness ==
    /\ Len(exitResults) >= 1
    /\ exitResults[1] = "returned"
    /\ \E i \in Idx : IsEv(i, "body", "is_active", "both") /\ log[i].ret = "false"
    /\ \E i \in Idx : IsEv(i, "exit", "stop", "client") /\ log[i].n = 1
    /\ \E i \in Idx : /\ IsEv(i, "exit", "lookup", "server")
                      /\ log[i].n = 1
                      /\ log[i].ret = "false"

\* C5 as stated: the scope's release runs exactly once, and an exception of
\* the body is what the caller of the with statement gets.
C5_BodyErrorReachesCaller ==
    /\ (bodyResult # "pending") <=> (withReleases = 1)
    /\ (callerSees # "pending" /\ enterResult = "returned") => withReleases = 1
    /\ (callerSees # "pending" /\ bodyResult \notin {"pending", "normal"}) =>
          callerSees = bodyResult

\* C5 amended: the scope's release runs exactly once (and not at all when
\* entry failed); it never suppresses the body's exception, which reaches the
\* caller when the release returns; when the release itself raises, it is the
\* release's error that reaches the caller.
C5_ReleaseOnceNoSuppress ==
    /\ withReleases \in {0, 1}
    /\ (bodyResult # "pending") <=> (withReleases = 1)
    /\ enterResult # "returned" => withReleases = 0
    /\ (callerSees # "pending" /\ enterResult = "returned") =>
          /\ withReleases = 1
          /\ Len(exitResults) >= 1
          /\ callerSees = IF exitResults[1] # "returned" THEN exitResults[1]
                          ELSE bodyResult

C5_Witness ==
    /\ bodyResult = "BodyError"
    /\ Len(exitResults) >= 1
    /\ exitResults[1] = "returned"
    /\ callerSees = "BodyError"

\* C6 as stated: when the client's stop raises a command-execution error the
\* release still issues the server's liveness check.
C6_StopFailureIsolated ==
    \A i \in Idx :
        ( /\ IsEv(i, "exit", "stop", "client")
          /\ log[i].exc = "CommandExecFailed"
          /\ Len(exitResults) >= log[i].n ) =>
        \E j \in Idx : /\ j > i
                       /\ IsEv(j, "exit", "lookup", "server")
                       /\ log[j].n = log[i].n

\* C7 as stated: is_running() returns a boolean for every outcome of the
\* executor, true exactly when the lookup succeeded.
C7_IsRunningNeverRaises ==
    \A i \in Idx : log[i].op = "lookup" =>
        /\ log[i].ret \in {"true", "false"}
        /\ (log[i].ret = "true") <=> (log[i].exc = "none")

\* The lookups made by the is_active() call that returned at position i.
LookupsOf(i) ==
    {j \in 1..(i - 1) : /\ log[j].op = "lookup"
                        /\ log[j].ph = log[i].ph
                        /\ log[j].call = log[i].call}

\* C8 as stated: is_active() is true iff both endpoints reported running in
\* the call, and once the server process is gone it returns false and does
\* not raise.
C8_IsActiveIffBoth ==
    \A i \in Idx : log[i].op = "is_active" =>
        /\ log[i].ret \in {"true", "false"}
        /\ (log[i].ret = "true") <=>
              /\ \E j \in LookupsOf(i) : log[j].ep = "server" /\ log[j].ret = "true"
              /\ \E j \in LookupsOf(i) : log[j].ep = "client" /\ log[j].ret = "true"
        /\ (\E j \in LookupsOf(i) : log[j].ep = "server" /\ ~ log[j].found) =>
              log[i].ret = "false"

\* C9: a command-execution error of the server's start ends entry at once:
\* it is the error the caller gets, no further command is issued, and no
\* client process of this Connection runs.
C9_ServerStartFailure ==
    \A i \in Idx :
        (IsEv(i, "enter", "start", "server") /\ log[i].exc = "CommandExecFailed") =>
            /\ Len(log) = i
            /\ ~ \E j \in Idx : log[j].op = "lookup" \/ log[j].ep = "client"
            /\ enterResult = "CommandExecFailed"
            /\ callerSees = "CommandExecFailed"
            /\ pc.at = "left"
            /\ rel = 0
            /\ conn.client.cmd \notin procs[conn.client.vm]

C9_Witness ==
    /\ Len(log) = 1
    /\ IsEv(1, "enter", "start", "server")
    /\ log[1].exc = "CommandExecFailed"
    /\ log[1].found

\* C10 as stated: a release called right after a release that completed
\* sees both endpoints not running, issues no stop and raises nothing.
C10_SecondReleaseIdle ==
    \A n \in 2..rel : exitResults[n - 1] = "returned" =>
        /\ \A i \in Idx : (log[i].ph = "exit" /\ log[i].n = n) =>
              /\ log[i].op = "lookup"
              /\ log[i].ret = "false"
        /\ Len(exitResults) >= n => exitResults[n] = "returned"

\* Lookups i < j of the same endpoint with no start() or stop() in between.
Repeated(i, j) ==
    /\ i < j
    /\ log[i].op = "lookup" /\ log[j].op = "lookup"
    /\ log[i].ep = log[j].ep
    /\ \A m \in (i + 1)..(j - 1) : log[m].op \notin {"start", "stop"}

\* C11 as stated: is_running() repeated with no start() or stop() in between
\* returns the same boolean every time.
C11_SameAnswerEveryTime ==
    \A i \in Idx, j \in Idx : Repeated(i, j) => log[i].ret = log[j].ret

\* C11 amended: a lookup changes neither the processes nor the command
\* strings; a lookup the executor completed returns true iff a process matches
\* at that moment, so repeated calls agree whenever the process did not exit
\* in between and no lookup failed for the executor's own reasons.
C11_PureQuery ==
    /\ [](\A i \in Idx :
            (log[i].op = "lookup" /\ log[i].fault = "none") =>
                (log[i].ret = "true") <=> log[i].found)
    /\ [](\A i \in Idx, j \in Idx :
            ( /\ Repeated(i, j)
              /\ log[i].fault = "none" /\ log[j].fault = "none"
              /\ log[i].found = log[j].found ) => log[i].ret = log[j].ret)
    /\ [][(ActiveLookup \/ ExitCheck) => UNCHANGED <<procs, conn, args>>]_vars

C11_Witness ==
    \E i \in Idx, j \in Idx :
        /\ Repeated(i, j)
        /\ log[i].fault = "none" /\ log[j].fault = "none"
        /\ log[i].found /\ log[j].found
        /\ log[i].ret = "true" /\ log[j].ret = "true"
        /\ log[i].ph = "enter" /\ log[j].ph = "body"

\* C12 as stated: is_running() returns true only if a process on the
\* endpoint's own target has a command line exactly equal to the endpoint's
\* command string.
C12_ExactMatchOnly ==
    \A i \in Idx : (log[i].op = "lookup" /\ log[i].ret = "true") => log[i].hit

\* C13 as stated: inside the open scope the Connection issues no start and
\* no stop, and is_active() returns true whenever both generator processes
\* are alive.
C13_ActiveWhileAlive ==
    \A i \in Idx : log[i].ph = "body" =>
        /\ log[i].op \in {"lookup", "is_active"}
        /\ (log[i].op = "is_active" /\ log[i].hit) => log[i].ret = "true"

\* C13 amended: inside the open scope the Connection issues no start and no
\* stop, and is_active() returns true whenever both generator processes are
\* alive and neither lookup fails for the executor's own reasons; a lookup
\* that times out makes it return false, one that fails otherwise makes it
\* raise.
C13_ActiveWhileAliveAndReachable ==
    \A i \in Idx : log[i].ph = "body" =>
        /\ log[i].op \in {"lookup", "is_active"}
        /\ ( /\ log[i].op = "is_active"
             /\ log[i].hit
             /\ \A j \in LookupsOf(i) : log[j].fault = "none" ) =>
              log[i].ret = "true"
        /\ ( /\ log[i].op = "is_active"
             /\ \E j \in LookupsOf(i) : log[j].fault = "timeout" ) =>
              log[i].ret = "false"
        /\ ( /\ log[i].op = "is_active"
             /\ \E j \in LookupsOf(i) : log[j].fault = "other" ) =>
              log[i].ret = "raised"

C13_Witness ==
    \E i \in Idx :
        /\ IsEv(i, "body", "is_active", "both")
        /\ log[i].hit
        /\ log[i].ret = "true"
        /\ Cardinality(LookupsOf(i)) = 2

\* C14: connection(...) issues no remote command and starts no process; the
\* Connection it returns is unopened, the first command being the one scoped
\* entry issues; the client's command carries the server's port and the
\* server address that was passed in, each endpoint its own VM.
C14_FactoryIsPure ==
    /\ [][Factory => UNCHANGED <<procs, log, rel, enterResult>>]_vars
    /\ [][(log = <<>> /\ log' # <<>>) =>
             (pc.at = "enter_start" /\ log'[1].ph = "enter")]_vars
    /\ [](pc.at \in {"new", "constructed"} => log = <<>>)
    /\ [](pc.at # "new" =>
            LET sc == conn.server.cmd
                cc == conn.client.cmd
                n  == Len(args.server_ip)
            IN /\ conn.server.vm = args.server_vm
               /\ conn.client.vm = args.client_vm
               /\ sc[5] = args.server_port
               /\ cc[Len(cc)] = sc[5]
               /\ SubSeq(cc, 3, 2 + n) = args.server_ip
               /\ Len(cc) = n + 6)

C14_Witness ==
    /\ pc.at = "constructed"
    /\ log = <<>>
    /\ args.server_port = "5203"
    /\ conn.client.cmd[Len(conn.client.cmd)] = "5203"

\* Scoped entry failed after it had issued a command.
EnterFailed == enterResult \notin {"pending", "returned"} /\ log # <<>>

\* C15: a failed scoped entry undoes nothing: no stop is ever issued, no
\* release runs, no further command follows, and the processes it started
\* disappear only by exiting on their own.
C15_NoRollback ==
    /\ [](EnterFailed =>
            /\ \A i \in Idx : log[i].op # "stop"
            /\ rel = 0 /\ withReleases = 0 /\ exitResults = <<>>
            /\ bodyResult = "pending"
            /\ pc.at = "left"
            /\ callerSees = enterResult)
    /\ [][EnterFailed => (log' = log /\ pc' = pc)]_vars
    /\ [][(EnterFailed /\ procs' # procs) => ProcessExits]_vars

\* Verification failed with the server started by this entry still running.
C15_Witness ==
    /\ enterResult = "ConnectionSetupError"
    /\ pc.at = "left"
    /\ IsEv(1, "enter", "start", "server") /\ log[1].found
    /\ IsEv(2, "enter", "start", "client") /\ log[2].found
    /\ conn.server.cmd \in procs[conn.server.vm]

\* C16: the check and the stop of a release are two commands; a stop that the
\* executor completes but that finds no process to signal (the process exited
\* after its check returned true) fails with a command-execution error, which
\* ends the release and is what the release raises.
C16_CheckThenStopRace ==
    \A i \in Idx :
        ( /\ log[i].ph = "exit" /\ log[i].op = "stop"
          /\ log[i].fault = "none" /\ ~ log[i].hit ) =>
        /\ log[i].exc = "CommandExecFailed"
        /\ i > 1
        /\ IsEv(i - 1, "exit", "lookup", log[i].ep)
        /\ log[i - 1].ret = "true"
        /\ \A j \in Idx : (j > i /\ log[j].ph = "exit") => log[j].n > log[i].n
        /\ Len(exitResults) >= log[i].n
        /\ exitResults[log[i].n] = "CommandExecFailed"
        /\ (log[i].n = 1 /\ pc.at = "left") => callerSees = "CommandExecFailed"

\* The server was alive at its check and gone at its stop.
C16_Witness ==
    \E i \in Idx :
        /\ IsEv(i, "exit", "stop", "server")
        /\ log[i].fault = "none" /\ ~ log[i].hit
        /\ log[i - 1].hit /\ log[i - 1].fault = "none"
        /\ log[i].n = 1
        /\ callerSees = "CommandExecFailed"

Shared == conn.server.vm = conn.client.vm

SameCall(i, j) ==
    /\ log[i].ph = log[j].ph
    /\ log[i].n = log[j].n
    /\ log[i].call = log[j].call

\* C18: no command is issued twice by one call of a handler; a finished entry
\* issued exactly one server start, a finished release exactly one client
\* lookup; a start or stop that failed ended its handler with that error, a
\* lookup that failed was turned into False or raised, and nothing followed a
\* failed start or stop in that call.
C18_NoRetry ==
    /\ \A i \in Idx, j \in Idx :
          (i < j /\ SameCall(i, j) /\ log[i].op = log[j].op) =>
              log[i].ep # log[j].ep
    /\ enterResult # "pending" =>
          Cardinality({i \in Idx : IsEv(i, "enter", "start", "server")}) = 1
    /\ \A n \in 1..Len(exitResults) :
          Cardinality({i \in Idx : IsEv(i, "exit", "lookup", "client")
                                   /\ log[i].n = n}) = 1
    /\ \A i \in Idx : log[i].exc # "none" =>
          /\ log[i].op = "start" =>
                (enterResult = log[i].exc /\ i = Len(log))
          /\ log[i].op = "stop" =>
                /\ Len(exitResults) >= log[i].n
                /\ exitResults[log[i].n] = log[i].exc
                /\ ~ \E j \in Idx : j > i /\ SameCall(i, j)
          /\ log[i].op = "lookup" =>
                log[i].ret = IF log[i].exc = "CommandExecFailed"
                             THEN "false" ELSE "raised"

\* A stop timed out: the release ended with that error after one lookup and
\* one stop.
C18_Witness ==
    /\ Len(exitResults) >= 1
    /\ exitResults[1] = "CommandExecFailed"
    /\ \E i \in Idx : /\ IsEv(i, "exit", "stop", "client")
                      /\ log[i].fault = "timeout"
                      /\ i = Len(log)
    /\ Cardinality({i \in Idx : log[i].ph = "exit"}) = 2

====
